---- MODULE Spec2Model ----
(***************************************************************************)
(* Model of mulysu.py: the song database (SongDatabase) and the menu loop  *)
(* of main().                                                              *)
(*                                                                         *)
(* Strings are sequences of code points, so that lower(), strip(), the     *)
(* substring test, the ordinal comparison of types and int() are computed  *)
(* and not assumed.  An Optional[str] is a sequence of at most one string: *)
(* <<>> is None, <<s>> is the string s.  A JSON object is a record whose   *)
(* domain is the set of keys the object holds.                             *)
(***************************************************************************)
EXTENDS Integers, Sequences, FiniteSets, TLC

VARIABLES
    songs,    \* self.songs: the in-memory collection
    doc,      \* the contents of DB_FILE
    pc,       \* "start", "loop" (top of main's loop), "menu" (at the menu prompt),
              \* "exited", "crashed"; "input"/"result" in the function specs
    out,      \* the last message printed
    last,     \* the operation run in this turn of the loop, with the inputs typed
    boot,     \* how load() ended at startup: "none", "absent", "ok", "error", "crash"
    written,  \* TRUE once save() has written DB_FILE in this run
    arg,      \* the argument of the function under test (function specs)
    ret       \* the value it returned (function specs)

vars == <<songs, doc, pc, out, last, boot, written, arg, ret>>

---------------------------------------------------------------------------
(* Bounds *)

MaxStore == 5       \* songs + resources + votes held by the collection (Spec)
MaxRankLen == 3     \* resources in one ranked list (RankSpec)
MaxFind == 2        \* songs in one searched collection (SearchSpec)

---------------------------------------------------------------------------
(* Strings *)

None == <<>>
Some(s) == <<s>>

str_empty == <<>>
str_blank == <<32>>                \* " "
str_a == <<97>>                    \* "a"
str_A == <<65>>                    \* "A"
str_b == <<98>>                    \* "b"
str_B == <<66>>                    \* "B"
str_ab == <<97, 98>>               \* "ab"
str_Ab == <<65, 98>>               \* "Ab"
str_aB_padded == <<32, 97, 66, 32>>  \* " aB "
str_s == <<115>>                   \* "s"
str_S == <<83>>                    \* "S"
str_t == <<116>>                   \* "t"
str_u == <<117>>                   \* "u"
str_v == <<118>>                   \* "v"
str_x == <<120>>                   \* "x"
str_xy == <<120, 121>>             \* "xy"
str_y == <<121>>                   \* "y"
str_n == <<110>>                   \* "n"
str_en == <<101, 110>>             \* "en"
str_0 == <<48>>                    \* "0"
str_1 == <<49>>                    \* "1"
str_2 == <<50>>                    \* "2"
str_3 == <<51>>                    \* "3"
str_4 == <<52>>                    \* "4"
str_5 == <<53>>                    \* "5"
str_q == <<113>>                   \* "q"
str_A_padded == <<32, 65, 32>>     \* " A "
str_es_padded == <<32, 101, 115, 32>>  \* " es "
str_minus1 == <<45, 49>>           \* "-1"
str_2_padded == <<32, 50, 32>>     \* " 2 "
str_1x == <<49, 120>>              \* "1x"

IsSpace(c) == c = 32
IsDigit(c) == c >= 48 /\ c <= 57
IsUpper(c) == c >= 65 /\ c <= 90

\* str.lower()
lower(s) == [i \in 1..Len(s) |-> IF IsUpper(s[i]) THEN s[i] + 32 ELSE s[i]]

RECURSIVE lstrip(_)
lstrip(s) == IF s # <<>> /\ IsSpace(Head(s)) THEN lstrip(Tail(s)) ELSE s

RECURSIVE rstrip(_)
rstrip(s) ==
    IF s # <<>> /\ IsSpace(s[Len(s)]) THEN rstrip(SubSeq(s, 1, Len(s) - 1)) ELSE s

\* str.strip()
strip(s) == rstrip(lstrip(s))

\* s[i..] starts with q
RECURSIVE StartsWithAt(_, _, _, _)
StartsWithAt(q, s, i, j) ==
    IF j > Len(q) THEN TRUE
    ELSE IF s[i + j - 1] # q[j] THEN FALSE
    ELSE StartsWithAt(q, s, i, j + 1)

\* the scan of `q in s`: the first offset at which q occurs, tried left to right
RECURSIVE FindFrom(_, _, _)
FindFrom(q, s, i) ==
    IF i + Len(q) - 1 > Len(s) THEN FALSE
    ELSE IF StartsWithAt(q, s, i, 1) THEN TRUE
    ELSE FindFrom(q, s, i + 1)

\* q in s
contains(q, s) == FindFrom(q, s, 1)

\* a < b on str: ordinal, code point by code point, a proper prefix is smaller
RECURSIVE str_lt(_, _)
str_lt(a, b) ==
    IF b = <<>> THEN FALSE
    ELSE IF a = <<>> THEN TRUE
    ELSE IF Head(a) # Head(b) THEN Head(a) < Head(b)
    ELSE str_lt(Tail(a), Tail(b))

str_gt(a, b) == str_lt(b, a)

BoolToInt(b) == IF b THEN 1 ELSE 0

\* the digits of an int literal, most significant first
RECURSIVE DigitsValue(_, _)
DigitsValue(s, acc) ==
    IF s = <<>> THEN acc ELSE DigitsValue(Tail(s), 10 * acc + (Head(s) - 48))

\* int(text): surrounding whitespace is dropped, one sign is allowed, then digits;
\* anything else raises ValueError (ok = FALSE)
int(text) ==
    LET t == strip(text)
        signed == t # <<>> /\ (Head(t) = 45 \/ Head(t) = 43)
        digits == IF signed THEN Tail(t) ELSE t
        valid == digits # <<>> /\ \A i \in 1..Len(digits) : IsDigit(digits[i])
    IN  IF ~valid THEN [ok |-> FALSE, val |-> 0]
        ELSE [ok |-> TRUE,
              val |-> IF signed /\ Head(t) = 45 THEN 0 - DigitsValue(digits, 0)
                      ELSE DigitsValue(digits, 0)]

---------------------------------------------------------------------------
(* Records *)

\* Resource(type, url, language, votes, content)
Resource(type, url, language, votes, content) ==
    [type |-> type, url |-> url, language |-> language, votes |-> votes,
     content |-> content]

\* Song(artist, song, artist_original, song_original, resources)
Song(artist, song, artist_original, song_original, resources) ==
    [artist |-> artist, song |-> song, artist_original |-> artist_original,
     song_original |-> song_original, resources |-> resources]

---------------------------------------------------------------------------
(* Ranking *)

\* compare(r1, r2) of _sort_resources
compare_votes_ascending(r1, r2) ==
    IF r1.votes # r2.votes THEN r1.votes - r2.votes
    ELSE BoolToInt(str_gt(r1.type, r2.type)) - BoolToInt(str_lt(r1.type, r2.type))

compare(r1, r2) ==
    IF r1.votes # r2.votes THEN r2.votes - r1.votes
    ELSE BoolToInt(str_gt(r1.type, r2.type)) - BoolToInt(str_lt(r1.type, r2.type))

\* sorted(): the position at which element p goes into the sorted run `order`
\* (indices into resources): after every element that is not greater than it
RECURSIVE InsertPos(_, _, _, _)
InsertPos(resources, order, p, j) ==
    IF j = 0 THEN 0
    ELSE IF compare(resources[p], resources[order[j]]) < 0
         THEN InsertPos(resources, order, p, j - 1)
         ELSE j

RECURSIVE SortedFrom(_, _, _)
SortedFrom(resources, order, p) ==
    IF p > Len(resources) THEN order
    ELSE LET j == InsertPos(resources, order, p, Len(order))
         IN  SortedFrom(resources,
                        SubSeq(order, 1, j) \o <<p>> \o SubSeq(order, j + 1, Len(order)),
                        p + 1)

\* sorted(resources, key=cmp_to_key(compare)), as the indices of the input's elements
\* in output order: the output holds the input's own objects
sorted_order(resources) == SortedFrom(resources, <<>>, 1)

\* _sort_resources(resources): a new list
sort_resources(resources) ==
    LET order == sorted_order(resources)
    IN  [i \in 1..Len(resources) |-> resources[order[i]]]

---------------------------------------------------------------------------
(* Query *)

\* the test of search()'s loop body on one song, the query already lower-cased
search_misses_originals(query, song) ==
    \/ contains(query, lower(song.artist))
    \/ contains(query, lower(song.song))

matches(query, song) ==
    \/ contains(query, lower(song.artist))
    \/ contains(query, lower(song.song))
    \/ contains(query, lower(song.artist_original))
    \/ contains(query, lower(song.song_original))

RECURSIVE SearchFrom(_, _, _, _)
SearchFrom(coll, query, i, results) ==
    IF i > Len(coll) THEN results
    ELSE SearchFrom(coll, query, i + 1,
                    IF matches(query, coll[i]) THEN Append(results, i) ELSE results)

\* search(query), as the indices in the collection of the songs returned: the
\* result list holds the collection's own Song objects
search_indices(coll, query) == SearchFrom(coll, lower(query), 1, <<>>)

\* search(query)
search(coll, query) ==
    LET idx == search_indices(coll, query)
    IN  [i \in 1..Len(idx) |-> coll[idx[i]]]

---------------------------------------------------------------------------
(* Persistence *)

DocAbsent == [kind |-> "absent", data |-> <<>>]     \* DB_FILE does not exist
DocGarbage == [kind |-> "garbage", data |-> <<>>]   \* DB_FILE is not JSON
DocJson(data) == [kind |-> "json", data |-> data]   \* DB_FILE holds a JSON array

\* asdict(resource)
resource_asdict_drops_content(resource) ==
    [type |-> resource.type, url |-> resource.url, language |-> resource.language,
     votes |-> resource.votes, content |-> None]

resource_asdict(resource) ==
    [type |-> resource.type, url |-> resource.url, language |-> resource.language,
     votes |-> resource.votes, content |-> resource.content]

\* asdict(song), its resources converted
song_asdict(song) ==
    [artist |-> song.artist, song |-> song.song,
     artist_original |-> song.artist_original,
     song_original |-> song.song_original,
     resources |-> [k \in 1..Len(song.resources) |-> resource_asdict(song.resources[k])]]

\* save(): the document written for the collection
save(coll) == DocJson([i \in 1..Len(coll) |-> song_asdict(coll[i])])

NoResource == Resource(<<>>, <<>>, <<>>, 0, None)

\* Resource(**res): TypeError when a field without default is missing or a key is
\* no field of Resource
resource_from_dict(res) ==
    IF /\ {"type", "url", "language"} \subseteq DOMAIN res
       /\ DOMAIN res \subseteq {"type", "url", "language", "votes", "content"}
    THEN [ok |-> TRUE,
          value |-> Resource(res.type, res.url, res.language,
                             IF "votes" \in DOMAIN res THEN res.votes ELSE 0,
                             IF "content" \in DOMAIN res THEN res.content ELSE None)]
    ELSE [ok |-> FALSE, value |-> NoResource]

\* [Resource(**res) for res in song_data.get('resources', [])]
RECURSIVE ResourcesFrom(_, _, _)
ResourcesFrom(list, k, acc) ==
    IF k > Len(list) THEN [ok |-> TRUE, value |-> acc]
    ELSE LET r == resource_from_dict(list[k])
         IN  IF r.ok THEN ResourcesFrom(list, k + 1, Append(acc, r.value))
             ELSE [ok |-> FALSE, value |-> acc]

\* the body of load()'s loop for one song_data: "ok", "TypeError" or "KeyError"
song_from_dict(song_data) ==
    LET list == IF "resources" \in DOMAIN song_data THEN song_data.resources ELSE <<>>
        rs == ResourcesFrom(list, 1, <<>>)
    IN  IF ~rs.ok THEN [status |-> "TypeError", value |-> <<>>]
        ELSE IF ~({"artist", "song", "artist_original", "song_original"}
                    \subseteq DOMAIN song_data)
        THEN [status |-> "KeyError", value |-> <<>>]
        ELSE [status |-> "ok",
              value |-> <<Song(song_data.artist, song_data.song,
                               song_data.artist_original, song_data.song_original,
                               rs.value)>>]

\* load()'s loop: the songs appended so far and how the loop ended
RECURSIVE SongsFrom(_, _, _)
SongsFrom(data, i, acc) ==
    IF i > Len(data) THEN [status |-> "ok", songs |-> acc]
    ELSE LET s == song_from_dict(data[i])
         IN  IF s.status = "ok" THEN SongsFrom(data, i + 1, acc \o s.value)
             ELSE [status |-> s.status, songs |-> acc]

\* load(): the collection, the document and the outcome it ends with.  Only
\* JSONDecodeError and KeyError are caught; a TypeError leaves load(), __init__ and
\* main() and ends the process.
load(d) ==
    IF d.kind = "absent"
    THEN [songs |-> <<>>, doc |-> save(<<>>), boot |-> "absent", saved |-> TRUE,
          out |-> ""]
    ELSE IF d.kind = "garbage"
    THEN [songs |-> <<>>, doc |-> d, boot |-> "error", saved |-> FALSE,
          out |-> "Error loading database"]
    ELSE LET r == SongsFrom(d.data, 1, <<>>)
         IN  IF r.status = "ok"
             THEN [songs |-> r.songs, doc |-> d, boot |-> "ok", saved |-> FALSE,
                   out |-> ""]
             ELSE IF r.status = "KeyError"
             THEN [songs |-> <<>>, doc |-> d, boot |-> "error", saved |-> FALSE,
                   out |-> "Error loading database"]
             ELSE [songs |-> r.songs, doc |-> d, boot |-> "crash", saved |-> FALSE,
                   out |-> "TypeError"]

---------------------------------------------------------------------------
(* Add song *)

\* input(...).strip()
prompt_unstripped(text) == text

prompt(text) == strip(text)

\* self.songs.append(new_song)
append_song_in_front(coll, new_song) == <<new_song>> \o coll

append_song(coll, new_song) == Append(coll, new_song)

\* one pass of the resource loop after the answer "y": entry = <<type, url,
\* language, content>> as typed
new_resource(entry) ==
    Resource(prompt(entry[1]), prompt(entry[2]),
             IF prompt(entry[3]) = <<>> THEN str_en ELSE prompt(entry[3]),
             0,
             IF prompt(entry[4]) = <<>> THEN None ELSE Some(prompt(entry[4])))

\* add_song(): names = <<artist, original artist, song, original song>> as typed,
\* entries = the resources typed, one per answer "y" to "Add a resource?", the
\* loop ending at the first other answer
add_song(coll, d, names, entries) ==
    LET artist == prompt(names[1])
        artist_original == IF prompt(names[2]) = <<>> THEN artist ELSE prompt(names[2])
        song_name == prompt(names[3])
        song_original == IF prompt(names[4]) = <<>> THEN song_name ELSE prompt(names[4])
        resources == [k \in 1..Len(entries) |-> new_resource(entries[k])]
        new_song == Song(artist, song_name, artist_original, song_original, resources)
        added == append_song(coll, new_song)
    IN  IF artist = <<>>
        THEN [songs |-> coll, doc |-> d, saved |-> FALSE,
              out |-> "Artist name is required."]
        ELSE IF song_name = <<>>
        THEN [songs |-> coll, doc |-> d, saved |-> FALSE,
              out |-> "Song name is required."]
        ELSE [songs |-> added, doc |-> save(added), saved |-> TRUE,
              out |-> "Song has been added."]

---------------------------------------------------------------------------
(* Vote *)

\* 0 <= choice < n
in_range_from_minus_one(choice, n) == -1 <= choice /\ choice < n

in_range(choice, n) == 0 <= choice /\ choice < n

\* list[i] of Python: a negative index counts from the end
item(list, i) == IF i < 0 THEN list[Len(list) + i + 1] ELSE list[i + 1]

\* the first song of the collection with the artist and song of selected_song
RECURSIVE find_song(_, _, _)
find_song(coll, selected_song, i) ==
    IF i > Len(coll) THEN 0
    ELSE IF /\ coll[i].artist = selected_song.artist
            /\ coll[i].song = selected_song.song
         THEN i
         ELSE find_song(coll, selected_song, i + 1)

\* the first resource of the song with the type and url of selected_resource
RECURSIVE find_resource(_, _, _)
find_resource(resources, selected_resource, k) ==
    IF k > Len(resources) THEN 0
    ELSE IF /\ resources[k].type = selected_resource.type
            /\ resources[k].url = selected_resource.url
         THEN k
         ELSE find_resource(resources, selected_resource, k + 1)

\* song.resources[k].votes += 1
upvote_by_two(coll, i, k) == [coll EXCEPT ![i].resources[k].votes = @ + 2]

upvote(coll, i, k) == [coll EXCEPT ![i].resources[k].votes = @ + 1]

\* the text of a prompt the run did not reach: no text that can be typed
NotRead == <<-1>>

\* vote_on_resource(): query_in, song_in, res_in are the texts typed at the three
\* prompts.  The result names the stage the run ended at and what it read and found:
\* results (indices of the search results), i and k (the song and resource
\* incremented, 0 when none).
vote_on_resource(coll, d, query_in, song_in, res_in) ==
    LET query == lower(strip(query_in))
        results == search_indices(coll, query)
        song_no == int(song_in)
        song_choice == song_no.val - 1
        selected_song == coll[item(results, song_choice)]
        i == find_song(coll, selected_song, 1)
        sorted_resources == sort_resources(coll[i].resources)
        res_no == int(res_in)
        resource_choice == res_no.val - 1
        selected_resource == item(sorted_resources, resource_choice)
        k == find_resource(coll[i].resources, selected_resource, 1)
        voted == upvote(coll, i, k)
        end(stage, msg, rs, s_in, r_in) ==
            [songs |-> coll, doc |-> d, saved |-> FALSE, out |-> msg, stage |-> stage,
             results |-> rs, song_in |-> s_in, res_in |-> r_in, i |-> 0, k |-> 0]
    IN  IF coll = <<>>
        THEN end("empty", "Database is empty.", <<>>, NotRead, NotRead)
        ELSE IF query = <<>>
        THEN end("no query", "", <<>>, NotRead, NotRead)
        ELSE IF results = <<>>
        THEN end("no match", "No matches found.", <<>>, NotRead, NotRead)
        ELSE IF ~song_no.ok
        THEN end("song not a number", "Please enter a valid number.", results,
                 song_in, NotRead)
        ELSE IF ~in_range(song_choice, Len(results))
        THEN end("song out of range", "Invalid selection.", results, song_in, NotRead)
        ELSE IF coll[i].resources = <<>>
        THEN end("no resources", "This song has no resources.", results, song_in,
                 NotRead)
        ELSE IF ~res_no.ok
        THEN end("resource not a number", "Please enter a valid number.", results,
                 song_in, res_in)
        ELSE IF ~in_range(resource_choice, Len(sorted_resources))
        THEN end("resource out of range", "Invalid selection.", results, song_in,
                 res_in)
        ELSE [songs |-> voted, doc |-> save(voted), saved |-> TRUE,
              out |-> "Vote added!", stage |-> "voted", results |-> results,
              song_in |-> song_in, res_in |-> res_in, i |-> i, k |-> k]

---------------------------------------------------------------------------
(* Listing *)

\* list_all(): the heading printed; the counts, totals and top two resources it
\* prints per song are computed from the collection and stored nowhere
list_all(coll) ==
    IF coll = <<>> THEN "Database is empty." ELSE "All Songs"

---------------------------------------------------------------------------
(* The shell: SongDatabase() and the loop of main() *)

SeqsUpTo(S, n) == UNION {[1..m -> S] : m \in 0..n}

RECURSIVE SizeOfResources(_, _)
SizeOfResources(resources, k) ==
    IF k > Len(resources) THEN 0
    ELSE 1 + (IF resources[k].votes > 0 THEN resources[k].votes ELSE 0)
           + SizeOfResources(resources, k + 1)

\* songs + resources + votes held by a collection
RECURSIVE SizeFrom(_, _)
SizeFrom(coll, i) ==
    IF i > Len(coll) THEN 0
    ELSE 1 + SizeOfResources(coll[i].resources, 1) + SizeFrom(coll, i + 1)

Size(coll) == SizeFrom(coll, 1)

\* JSON objects of the documents found at startup
JsonResource(type, votes) ==
    [type |-> type, url |-> str_u, language |-> str_en, votes |-> votes,
     content |-> None]

JsonSong(artist, song, resources) ==
    [artist |-> artist, song |-> song, artist_original |-> artist,
     song_original |-> song, resources |-> resources]

\* the documents DB_FILE may hold when the program starts
BootDocs ==
    { DocAbsent,
      DocGarbage,
      DocJson(<<>>),
      \* stored order y, x: ranked order is x, y
      DocJson(<<JsonSong(str_a, str_s,
                         <<JsonResource(str_y, 0), JsonResource(str_x, 0)>>)>>),
      \* two resources with the same (type, url), the second ranked first
      DocJson(<<JsonSong(str_a, str_s,
                         <<JsonResource(str_x, 0), JsonResource(str_x, 1)>>)>>),
      \* two songs with the same (artist, song)
      DocJson(<<JsonSong(str_a, str_s, <<JsonResource(str_x, 0)>>),
                JsonSong(str_a, str_s, <<JsonResource(str_y, 0)>>)>>),
      \* no "resources" key
      DocJson(<<[artist |-> str_a, song |-> str_s, artist_original |-> str_a,
                 song_original |-> str_s]>>),
      \* a key that is no field of Song
      DocJson(<<[artist |-> str_a, song |-> str_s, artist_original |-> str_a,
                 song_original |-> str_s, resources |-> <<JsonResource(str_x, 0)>>,
                 year |-> 0]>>),
      \* a resource without "votes" and "content"
      DocJson(<<JsonSong(str_a, str_s,
                         <<[type |-> str_x, url |-> str_u, language |-> str_en]>>)>>),
      \* a negative vote count
      DocJson(<<JsonSong(str_a, str_s, <<JsonResource(str_x, -1)>>)>>),
      \* the second song lacks "artist"
      DocJson(<<JsonSong(str_a, str_s, <<>>),
                [song |-> str_s, artist_original |-> str_a, song_original |-> str_s,
                 resources |-> <<>>]>>),
      \* the second song has a resource without "type"
      DocJson(<<JsonSong(str_a, str_s, <<>>),
                JsonSong(str_b, str_t,
                         <<[url |-> str_u, language |-> str_en, votes |-> 0,
                            content |-> None]>>)>>),
      \* a resource with a key that is no field of Resource
      DocJson(<<JsonSong(str_a, str_s,
                         <<[type |-> str_x, url |-> str_u, language |-> str_en,
                            votes |-> 0, content |-> None, rating |-> 0]>>)>>) }

\* what the user may type
MenuInputs == {str_1, str_2_padded, str_3, str_4, str_5, str_x, str_empty}
SearchInputs == {str_empty, str_A_padded, str_t, str_q}
VoteQueries == {str_blank, str_A_padded, str_t, str_q}
Numbers == {str_x, str_1x, str_0, str_minus1, str_1, str_2_padded, str_3}
NameInputs ==
    { <<str_empty, str_empty, str_empty, str_empty>>,
      <<str_blank, str_b, str_s, str_empty>>,
      <<str_a, str_empty, str_empty, str_empty>>,
      <<str_a, str_b, str_blank, str_t>>,
      <<str_a, str_empty, str_s, str_empty>>,
      <<str_aB_padded, str_b, str_S, str_t>> }
entry_y == <<str_y, str_u, str_empty, str_empty>>
entry_x == <<str_x, str_u, str_es_padded, str_n>>
\* the resources typed in one add_song run, one entry per answer "y"
EntryInputs ==
    { <<>>, <<entry_x>>, <<entry_y, entry_x>>, <<entry_x, entry_x>> }

Chosen(option) == \E choice \in MenuInputs : strip(choice) = option

Init ==
    /\ songs = <<>>
    /\ doc \in BootDocs
    /\ pc = "start"
    /\ out = ""
    /\ last = [op |-> "none"]
    /\ boot = "none"
    /\ written = FALSE
    /\ arg = <<>>
    /\ ret = <<>>

\* db = SongDatabase(): __init__ runs load()
Load ==
    /\ pc = "start"
    /\ \E r \in {load(doc)} :
           /\ songs' = r.songs
           /\ doc' = r.doc
           /\ boot' = r.boot
           /\ written' = r.saved
           /\ out' = r.out
           /\ pc' = IF r.boot = "crash" THEN "crashed" ELSE "loop"
    /\ last' = [op |-> "load"]
    /\ UNCHANGED <<arg, ret>>

\* the top of the loop: the options are printed and the shell waits for a choice
Menu ==
    /\ pc = "loop"
    /\ pc' = "menu"
    /\ out' = "Your choice: "
    /\ last' = [op |-> "none"]
    /\ UNCHANGED <<songs, doc, boot, written, arg, ret>>

\* choice "1"
Search ==
    /\ pc = "menu"
    /\ pc' = "loop"
    /\ Chosen(str_1)
    /\ \E text \in SearchInputs :
         LET results == search(songs, strip(text))
         IN  /\ out' = IF results = <<>> THEN "No matches found." ELSE "Found"
             /\ last' = [op |-> "search", found |-> Len(results)]
    /\ UNCHANGED <<songs, doc, boot, written, arg, ret>>

\* choice "2"
AddSong ==
    /\ pc = "menu"
    /\ pc' = "loop"
    /\ Chosen(str_2)
    /\ \E names \in NameInputs :
         LET blank_artist == add_song(songs, doc, names, <<>>).out
                               = "Artist name is required."
             blank_song == add_song(songs, doc, names, <<>>).out
                               = "Song name is required."
         IN  \E entries \in IF blank_artist \/ blank_song THEN {<<>>}
                            ELSE {e \in EntryInputs :
                                    Size(songs) + 1 + Len(e) <= MaxStore} :
             \E r \in {add_song(songs, doc, names, entries)} :
                   /\ songs' = r.songs
                   /\ doc' = r.doc
                   /\ written' = (written \/ r.saved)
                   /\ out' = r.out
                   /\ last' = [op |-> "add", saved |-> r.saved,
                               names |-> IF blank_artist THEN SubSeq(names, 1, 1)
                                         ELSE IF blank_song THEN SubSeq(names, 1, 3)
                                         ELSE names]
    /\ UNCHANGED <<boot, arg, ret>>

\* choice "3"
ListAll ==
    /\ pc = "menu"
    /\ pc' = "loop"
    /\ Chosen(str_3)
    /\ out' = list_all(songs)
    /\ last' = [op |-> "list"]
    /\ UNCHANGED <<songs, doc, boot, written, arg, ret>>

\* choice "4": each prompt is read only when the run reaches it
Vote ==
    /\ pc = "menu"
    /\ pc' = "loop"
    /\ Chosen(str_4)
    /\ \E query_in \in VoteQueries :
       \E song_in \in IF vote_on_resource(songs, doc, query_in, NotRead, NotRead).stage
                           = "song not a number"
                      THEN Numbers ELSE {NotRead} :
       \E res_in \in IF vote_on_resource(songs, doc, query_in, song_in, NotRead).stage
                          = "resource not a number"
                     THEN Numbers ELSE {NotRead} :
       \E r \in {vote_on_resource(songs, doc, query_in, song_in, res_in)} :
             /\ r.stage = "voted" => Size(songs) < MaxStore
             /\ songs' = r.songs
             /\ doc' = r.doc
             /\ written' = (written \/ r.saved)
             /\ out' = r.out
             /\ last' = [op |-> "vote", saved |-> r.saved, stage |-> r.stage,
                         results |-> r.results, song_in |-> r.song_in,
                         res_in |-> r.res_in, i |-> r.i, k |-> r.k]
    /\ UNCHANGED <<boot, arg, ret>>

\* choice "5"
Exit ==
    /\ pc = "menu"
    /\ Chosen(str_5)
    /\ pc' = "exited"
    /\ out' = "Goodbye!"
    /\ last' = [op |-> "exit"]
    /\ UNCHANGED <<songs, doc, boot, written, arg, ret>>

\* any other choice
InvalidOption ==
    /\ pc = "menu"
    /\ pc' = "loop"
    /\ \E choice \in MenuInputs :
         strip(choice) \notin {str_1, str_2, str_3, str_4, str_5}
    /\ out' = "Invalid option. Please choose 1-5."
    /\ last' = [op |-> "invalid option"]
    /\ UNCHANGED <<songs, doc, boot, written, arg, ret>>

\* KeyboardInterrupt at a prompt, of the menu or of the action running: every
\* prompt of add_song and vote_on_resource comes before the first assignment to
\* self.songs, so the action is abandoned with nothing changed
Interrupt ==
    /\ pc = "menu"
    /\ pc' = "loop"
    /\ out' = "Interrupted. Use option 5 to exit properly."
    /\ last' = [op |-> "interrupt"]
    /\ UNCHANGED <<songs, doc, boot, written, arg, ret>>

\* EOFError at a prompt
EndOfInput ==
    /\ pc = "menu"
    /\ pc' = "exited"
    /\ out' = "Exiting..."
    /\ last' = [op |-> "end of input"]
    /\ UNCHANGED <<songs, doc, boot, written, arg, ret>>

Next ==
    \/ Load
    \/ Menu
    \/ Search
    \/ AddSong
    \/ ListAll
    \/ Vote
    \/ Exit
    \/ InvalidOption
    \/ Interrupt
    \/ EndOfInput

Spec == Init /\ [][Next]_vars

---------------------------------------------------------------------------
(* Ranking on its own: _sort_resources applied to bounded lists *)

RankVotes == {-1, 0, 2}
RankResources ==
    { Resource(type, url, str_en, votes, None) :
        type \in {str_x, str_xy, str_y}, url \in {str_u, str_v}, votes \in RankVotes }

RankInit ==
    /\ songs = <<>>
    /\ doc = DocAbsent
    /\ pc = "input"
    /\ out = ""
    /\ last = [op |-> "none"]
    /\ boot = "none"
    /\ written = FALSE
    /\ arg \in SeqsUpTo(RankResources, MaxRankLen)
    /\ ret = <<>>

Rank ==
    /\ pc = "input"
    /\ ret' = sort_resources(arg)
    /\ pc' = "result"
    /\ UNCHANGED <<songs, doc, out, last, boot, written, arg>>

RankNext == Rank

RankSpec == RankInit /\ [][RankNext]_vars

---------------------------------------------------------------------------
(* Query on its own: search applied to bounded collections *)

FindSongs ==
    { Song(artist, song, artist_original, song_original, <<>>) :
        artist \in {str_a, str_Ab}, song \in {str_s, str_S},
        artist_original \in {str_a, str_b}, song_original \in {str_s, str_t} }

FindQueries == {str_empty, str_a, str_A, str_B, str_ab, str_Ab, str_S, str_t, str_q}

FindInit ==
    /\ songs \in SeqsUpTo(FindSongs, MaxFind)
    /\ doc = DocAbsent
    /\ pc = "input"
    /\ out = ""
    /\ last = [op |-> "none"]
    /\ boot = "none"
    /\ written = FALSE
    /\ arg \in FindQueries
    /\ ret = <<>>

Find ==
    /\ pc = "input"
    /\ ret' = search(songs, arg)
    /\ pc' = "result"
    /\ UNCHANGED <<songs, doc, out, last, boot, written, arg>>

FindNext == Find

SearchSpec == FindInit /\ [][FindNext]_vars

---------------------------------------------------------------------------
(* Properties *)

Blank(text) == \A j \in 1..Len(text) : text[j] = 32

\* q occurs in s, at some offset
Occurs(q, s) ==
    \E o \in 0..(Len(s) - Len(q)) : \A j \in 1..Len(q) : s[o + j] = q[j]

VoteStep == pc = "menu" /\ last'.op = "vote"
AddStep == pc = "menu" /\ last'.op = "add"

\* the typed text is a number in 1..n
Picks(text, n) == text # NotRead /\ int(text).ok /\ int(text).val \in 1..n

\* the resources listed at the resource prompt after picking `picked`: those of the
\* first song of the collection with its artist and song
Shown(coll, picked) ==
    LET same == {i \in 1..Len(coll) : /\ coll[i].artist = coll[picked].artist
                                      /\ coll[i].song = coll[picked].song}
    IN  coll[CHOOSE i \in same : \A j \in same : i <= j].resources

\* coll and coll2 hold the same songs and resources and differ in nothing but the
\* votes of resource k of song i, which is n higher in coll2
OnlyVoteDiffers(coll, coll2, i, k, n) ==
    /\ Len(coll2) = Len(coll)
    /\ \A a \in 1..Len(coll) :
         /\ coll2[a].artist = coll[a].artist
         /\ coll2[a].song = coll[a].song
         /\ coll2[a].artist_original = coll[a].artist_original
         /\ coll2[a].song_original = coll[a].song_original
         /\ Len(coll2[a].resources) = Len(coll[a].resources)
         /\ \A b \in 1..Len(coll[a].resources) :
              LET r1 == coll[a].resources[b]
                  r2 == coll2[a].resources[b]
              IN  /\ r2.type = r1.type /\ r2.url = r1.url
                  /\ r2.language = r1.language /\ r2.content = r1.content
                  /\ r2.votes = r1.votes + (IF a = i /\ b = k THEN n ELSE 0)

\* C1: a vote in which the user types an in-range song number and an in-range
\* resource number adds exactly 1 to the votes of exactly one resource of the
\* collection and changes nothing else: no other counter, no other field, not the
\* number or order of songs and resources.
C1_VoteIncrementsExactlyOne ==
    [][(/\ VoteStep
        /\ Picks(last'.song_in, Len(last'.results))
        /\ Picks(last'.res_in,
                 Len(Shown(songs, last'.results[int(last'.song_in).val]))))
       => \E i \in 1..Len(songs) : \E k \in 1..Len(songs[i].resources) :
            OnlyVoteDiffers(songs, songs', i, k, 1)]_vars

C1_Witness ==
    /\ last.op = "vote" /\ last.stage = "voted"
    /\ Len(songs) >= 2
    /\ last.i = 2
    /\ Len(songs[2].resources) >= 2
    /\ songs[2].resources[last.k].votes = 1

\* C2: in every vote that completes, the resource incremented is the one the user
\* picked: the entry at the typed position of the ranked resources of the song at
\* the typed position of the search results, also when songs share (artist, song)
\* or resources share (type, url).
C2_IncrementedIsPicked ==
    [][(VoteStep /\ last'.stage = "voted")
       => LET picked == last'.results[int(last'.song_in).val]
              n == int(last'.res_in).val
          IN  /\ n <= Len(songs[picked].resources)
              /\ OnlyVoteDiffers(songs, songs', picked,
                                 sorted_order(songs[picked].resources)[n], 1)]_vars

\* C3: a vote in which the text typed at the song prompt or at the resource prompt
\* is no number, or a number outside 1..length of the list shown, changes neither
\* the collection nor the document, saves nothing, and ends back in the loop.
C3_InvalidSelectionAborts ==
    [][(/\ VoteStep
        /\ \/ /\ last'.song_in # NotRead
              /\ ~Picks(last'.song_in, Len(last'.results))
           \/ /\ last'.res_in # NotRead
              /\ \/ ~Picks(last'.song_in, Len(last'.results))
                 \/ ~Picks(last'.res_in,
                           Len(Shown(songs, last'.results[int(last'.song_in).val]))))
       => /\ songs' = songs /\ doc' = doc /\ written' = written
          /\ ~last'.saved /\ pc' = "loop"]_vars

C3_Witness ==
    /\ last.op = "vote"
    /\ last.stage = "resource out of range"
    /\ last.res_in = str_0
    /\ Len(songs) >= 2

\* C4: an add_song run in which the artist name, or the song name, is empty or
\* only whitespace appends nothing and does not save: collection and document are
\* unchanged, whatever was typed before the blank field.
C4_BlankNameAddsNothing ==
    [][(/\ AddStep
        /\ \/ Blank(last'.names[1])
           \/ Len(last'.names) >= 3 /\ Blank(last'.names[3]))
       => /\ songs' = songs /\ doc' = doc /\ written' = written
          /\ ~last'.saved]_vars

C4_Witness ==
    /\ last.op = "add"
    /\ Len(last.names) = 3
    /\ last.names[1] = str_a /\ last.names[2] = str_b /\ last.names[3] = str_blank
    /\ ~last.saved
    /\ songs # <<>>

\* a document that does not parse, or in which a song lacks one of its four text
\* fields or a resource lacks its type, url or language
C5_Malformed(d) ==
    \/ d.kind = "garbage"
    \/ /\ d.kind = "json"
       /\ \E i \in 1..Len(d.data) :
            \/ ~({"artist", "song", "artist_original", "song_original"}
                   \subseteq DOMAIN d.data[i])
            \/ /\ "resources" \in DOMAIN d.data[i]
               /\ \E k \in 1..Len(d.data[i].resources) :
                    ~({"type", "url", "language"} \subseteq DOMAIN d.data[i].resources[k])

\* C5: whenever the document is malformed, load() ends with the collection empty
\* and the error reported, and the program goes on to the menu: a malformed
\* document never ends the process.
C5_MalformedDocumentNeverFatal ==
    (last.op = "load" /\ C5_Malformed(doc))
       => /\ pc = "loop"
          /\ songs = <<>>
          /\ out = "Error loading database"

\* C6: _sort_resources returns a permutation of its input with votes
\* non-increasing, equal votes in ascending type order, and equal votes and type in
\* input order; ranking the output again returns it unchanged; the input list is
\* left as it was.
C6_RankingIsStableSort ==
    [][(pc = "input" /\ pc' = "result")
       => /\ arg' = arg
          /\ Len(ret') = Len(arg)
          /\ \E p \in [1..Len(arg) -> 1..Len(arg)] :
               /\ \A a, b \in 1..Len(arg) : a # b => p[a] # p[b]
               /\ \A a \in 1..Len(arg) : ret'[a] = arg[p[a]]
               /\ \A a, b \in 1..Len(arg) :
                    a < b =>
                      /\ ret'[a].votes >= ret'[b].votes
                      /\ ret'[a].votes = ret'[b].votes
                           => ~str_lt(ret'[b].type, ret'[a].type)
                      /\ (ret'[a].votes = ret'[b].votes /\ ret'[a].type = ret'[b].type)
                           => p[a] < p[b]
          /\ sort_resources(ret') = ret']_vars

C6_Witness ==
    /\ pc = "result"
    /\ arg = <<Resource(str_xy, str_v, str_en, 0, None),
               Resource(str_xy, str_u, str_en, 0, None),
               Resource(str_x, str_u, str_en, 2, None)>>
    /\ ret = <<arg[3], arg[1], arg[2]>>

\* the lower-cased query occurs in one of the four lower-cased text fields
C7_Hit(query, song) ==
    \E field \in {song.artist, song.song, song.artist_original, song.song_original} :
        Occurs(lower(query), lower(field))

\* C7: search(query) returns exactly the songs in which the lower-cased query is a
\* substring of the lower-cased artist, song, artist_original or song_original, in
\* collection order; the empty query returns every song; the collection is
\* unchanged.
C7_SearchReturnsTheMatches ==
    [][(pc = "input" /\ pc' = "result")
       => LET hits == {i \in 1..Len(songs) : C7_Hit(arg, songs[i])}
          IN  /\ songs' = songs
              /\ Len(ret') = Cardinality(hits)
              /\ \E f \in [1..Len(ret') -> hits] :
                   /\ \A a, b \in 1..Len(ret') : a < b => f[a] < f[b]
                   /\ \A a \in 1..Len(ret') : ret'[a] = songs[f[a]]
              /\ arg = <<>> => ret' = songs]_vars

C7_Witness ==
    /\ pc = "result"
    /\ arg = str_B
    /\ Len(songs) = 2
    /\ songs[1].artist = str_a /\ songs[1].artist_original = str_a
    /\ songs[2].artist = str_a /\ songs[2].artist_original = str_b
    /\ ret = <<songs[2]>>

\* C8: after startup every step leaves the collection before it a prefix of the
\* collection after it: every song keeps its four text fields and its resources in
\* the same order with the same type, url, language and content, and no votes
\* value decreases.
C8_CollectionOnlyGrows ==
    [][pc # "start"
       => /\ Len(songs') >= Len(songs)
          /\ \A a \in 1..Len(songs) :
               /\ songs'[a].artist = songs[a].artist
               /\ songs'[a].song = songs[a].song
               /\ songs'[a].artist_original = songs[a].artist_original
               /\ songs'[a].song_original = songs[a].song_original
               /\ Len(songs'[a].resources) = Len(songs[a].resources)
               /\ \A b \in 1..Len(songs[a].resources) :
                    LET r1 == songs[a].resources[b]
                        r2 == songs'[a].resources[b]
                    IN  /\ r2.type = r1.type /\ r2.url = r1.url
                        /\ r2.language = r1.language /\ r2.content = r1.content
                        /\ r2.votes >= r1.votes]_vars

C8_Witness ==
    /\ last.op = "add" /\ last.saved
    /\ Len(songs) = 2
    /\ \E b \in 1..Len(songs[1].resources) : songs[1].resources[b].votes >= 1
    /\ Len(songs[2].resources) >= 1

\* C9: votes are never negative: after load() of any document it accepts, and
\* after any adds and votes, every resource of every song has votes >= 0.
C9_VotesNeverNegative ==
    pc \in {"loop", "menu", "exited"}
       => \A a \in 1..Len(songs) : \A b \in 1..Len(songs[a].resources) :
            songs[a].resources[b].votes >= 0

\* d is the array of the collection's songs, each an object with exactly the five
\* keys of Song and the values held in memory, each resource an object with
\* exactly the five keys of Resource and the values held in memory
IsSerializationOf(d, coll) ==
    /\ d.kind = "json"
    /\ Len(d.data) = Len(coll)
    /\ \A a \in 1..Len(coll) :
         /\ DOMAIN d.data[a]
              = {"artist", "song", "artist_original", "song_original", "resources"}
         /\ d.data[a].artist = coll[a].artist
         /\ d.data[a].song = coll[a].song
         /\ d.data[a].artist_original = coll[a].artist_original
         /\ d.data[a].song_original = coll[a].song_original
         /\ Len(d.data[a].resources) = Len(coll[a].resources)
         /\ \A b \in 1..Len(coll[a].resources) :
              /\ DOMAIN d.data[a].resources[b]
                   = {"type", "url", "language", "votes", "content"}
              /\ d.data[a].resources[b].type = coll[a].resources[b].type
              /\ d.data[a].resources[b].url = coll[a].resources[b].url
              /\ d.data[a].resources[b].language = coll[a].resources[b].language
              /\ d.data[a].resources[b].votes = coll[a].resources[b].votes
              /\ d.data[a].resources[b].content = coll[a].resources[b].content

\* C10 as stated: after a startup that found no document or loaded it without
\* error, whenever the shell waits at the menu prompt the document is exactly the
\* serialization of the collection.
C10_DocumentIsSerialization ==
    (pc = "menu" /\ boot \in {"absent", "ok"}) => IsSerializationOf(doc, songs)

\* C10 as amended: after such a startup, whenever the shell waits at the menu
\* prompt the document is one that load() reads back without error as exactly the
\* collection, and once save() has run (at startup when there was no document,
\* else at the first completed add or vote) it is exactly the serialization of the
\* collection.
C10_DocumentReloadsAsCollection ==
    (pc = "menu" /\ boot \in {"absent", "ok"})
       => /\ load(doc).boot = "ok"
          /\ load(doc).songs = songs
          /\ written => IsSerializationOf(doc, songs)

C10_Witness ==
    /\ pc = "menu" /\ boot = "ok" /\ written
    /\ Len(songs) = 2
    /\ songs[1].resources # <<>> /\ songs[1].resources[1].votes = 1
    /\ songs[2].resources # <<>> /\ songs[2].resources[1].content # None

====
